---------------------------- MODULE Spec2Model ----------------------------
(***************************************************************************)
(* A model of backend/server.py, the Data Analyst Agent service: the       *)
(* analysis endpoint POST /api/ (analyze_data), the listing endpoint       *)
(* GET /api/tasks (get_analysis_tasks), the request log                    *)
(* db.analysis_requests and the temporary workspaces on disk.              *)
(*                                                                         *)
(* analyze_data is a coroutine: other requests run only while it is        *)
(* suspended in an await.  It is cut at its two long awaits, the model     *)
(* call (chat.send_message) and the log write (insert_one):                *)
(*   Submit      validation, entry, question decoding, mkdtemp, the whole  *)
(*               ingestion loop                       (lines 247-329)      *)
(*   ModelReply  the model's answer, code extraction, code execution       *)
(*                                                    (lines 330-335)      *)
(*   LogWrite    the insert, the response, the finally clause              *)
(*                                                    (lines 337-357)      *)
(* and every exit through the handler's except clause (lines 359-369) is   *)
(* part of the action in which the exception is raised.                    *)
(*                                                                         *)
(* Spec serves requests one after the other; SpecConcurrent serves them    *)
(* on two connections; SpecPaths serves requests whose uploads carry a     *)
(* path as filename.  SpecLoop, SpecExtract and SpecScrape run the         *)
(* ingestion loop, the code extraction and scrape_wikipedia_table on their *)
(* own, on any input.                                                      *)
(*                                                                         *)
(* Strings the code inspects (filenames) are sequences of one-character    *)
(* strings; strings it only carries are TLA+ strings.  Python's None is    *)
(* PyNone.                                                                 *)
(***************************************************************************)
EXTENDS Integers, Sequences, FiniteSets, TLC

(***************************************************************************)
(* Bounds of the model.                                                    *)
(***************************************************************************)
\* Requests that enter the handler body in one behaviour.
MaxRequests == 3
\* Auxiliary files uploaded with one request.
MaxFiles == 1

\* The connections on which requests are served concurrently.
Handlers == {"h1", "h2"}
\* The connection that serves requests when they come one after the other.
Serial == {"h1"}

(***************************************************************************)
(* Program constants.                                                      *)
(***************************************************************************)
\* to_list(100) in get_analysis_tasks.
ListLimit == 100

PyNone == "<None>"
Placeholder == "Code executed successfully but no result variable found"

NoTask == 0
NoDir == 0

(***************************************************************************)
(* Exceptions.  Every exception the handler meets is an instance of        *)
(* Exception; an HTTPException carries the status code it was built with.  *)
(***************************************************************************)
NoExc == [type |-> "none", status_code |-> 0, detail |-> PyNone]

HTTPException(code, detail) ==
    [type |-> "HTTPException", status_code |-> code, detail |-> detail]

PyError(type, detail) == [type |-> type, status_code |-> 0, detail |-> detail]

\* str(e): a string and never None; it is taken to be the exception's
\* message.
Str(e) == e.detail

(***************************************************************************)
(* Filenames.                                                              *)
(***************************************************************************)
EndsWith(s, suffix) ==
    /\ Len(s) >= Len(suffix)
    /\ SubSeq(s, Len(s) - Len(suffix) + 1, Len(s)) = suffix

\* str.lower() on the letters the filenames of the model use.
LowerChar(c) ==
    CASE c = "C" -> "c" [] c = "S" -> "s" [] c = "V" -> "v"
      [] c = "P" -> "p" [] c = "N" -> "n" [] c = "G" -> "g"
      [] c = "D" -> "d" [] c = "F" -> "f" [] c = "J" -> "j"
      [] c = "E" -> "e"
      [] OTHER -> c

Lower(s) == [i \in 1..Len(s) |-> LowerChar(s[i])]

\* filename.replace('.', '_').replace('-', '_')
Replace(s) == [i \in 1..Len(s) |-> IF s[i] \in {".", "-"} THEN "_" ELSE s[i]]

Suffix_csv == <<".", "c", "s", "v">>
Suffix_pdf == <<".", "p", "d", "f">>
Suffix_png == <<".", "p", "n", "g">>
Suffix_jpg == <<".", "j", "p", "g">>
Suffix_jpeg == <<".", "j", "p", "e", "g">>

Prefix_df == <<"d", "f", "_">>
Prefix_text == <<"t", "e", "x", "t", "_">>
Prefix_img_path == <<"i", "m", "g", "_", "p", "a", "t", "h", "_">>

\* A variant with a slip: every suffix is matched on the lower-cased name.
Branch_anycase(filename) ==
    IF EndsWith(Lower(filename), Suffix_csv) THEN "csv"
    ELSE IF EndsWith(Lower(filename), Suffix_pdf) THEN "pdf"
    ELSE IF \/ EndsWith(Lower(filename), Suffix_png)
            \/ EndsWith(Lower(filename), Suffix_jpg)
            \/ EndsWith(Lower(filename), Suffix_jpeg) THEN "image"
    ELSE "other"

\* The ingestion branch a filename takes (the if/elif chain of analyze_data).
Branch(filename) ==
    IF EndsWith(filename, Suffix_csv) THEN "csv"
    ELSE IF EndsWith(filename, Suffix_pdf) THEN "pdf"
    ELSE IF \/ EndsWith(Lower(filename), Suffix_png)
            \/ EndsWith(Lower(filename), Suffix_jpg)
            \/ EndsWith(Lower(filename), Suffix_jpeg) THEN "image"
    ELSE "other"

\* A variant with a slip: the name is made without the prefix.
VarName_noprefix(filename) == Replace(filename)

\* var_name = f"<prefix>{file.filename.replace('.', '_').replace('-', '_')}"
VarName(filename) ==
    LET prefix == CASE Branch(filename) = "csv" -> Prefix_df
                    [] Branch(filename) = "image" -> Prefix_img_path
                    [] OTHER -> Prefix_text
    IN  prefix \o Replace(filename)

(***************************************************************************)
(* Uploaded files: a filename and whether the bytes are well formed for    *)
(* the branch the filename selects (a CSV pandas parses, a PDF PyPDF2      *)
(* reads, an image PIL opens, text that decodes as UTF-8).                 *)
(***************************************************************************)
FileNames ==
    { <<"a", ".", "c", "s", "v">>,
      <<"b", ".", "p", "d", "f">>,
      <<"c", ".", "P", "N", "G">>,
      <<"d", ".", "t", "x", "t">>,
      <<"s", "/", "e", ".", "c", "s", "v">> }

Files == [filename : FileNames, content : {"good", "bad"}]

Uploads == UNION { [1..n -> Files] : n \in 0..MaxFiles }

\* open(Path(temp_dir) / filename, "wb") in a workspace mkdtemp has just
\* made: the workspace has no subdirectory, so a filename whose first
\* component is a directory name cannot be opened.
SaveRaises(filename) ==
    /\ \E i \in 1..Len(filename) : filename[i] = "/"
    /\ LET first == CHOOSE i \in 1..Len(filename) :
                        /\ filename[i] = "/"
                        /\ \A j \in 1..(i - 1) : filename[j] # "/"
       IN  SubSeq(filename, 1, first - 1) \notin {<<>>, <<".">>, <<".", ".">>}

(***************************************************************************)
(* The file processing utilities.  Each returns [raised, value].           *)
(***************************************************************************)
process_csv_file(file) ==
    IF file.content = "good"
    THEN [raised |-> NoExc, value |-> "frame"]
    ELSE [raised |-> HTTPException(400, "Error processing CSV"),
          value |-> PyNone]

\* A variant with a slip: the failure is raised, as process_csv_file does.
process_pdf_file_raises(file) ==
    IF file.content = "good"
    THEN [raised |-> NoExc, value |-> "pages"]
    ELSE [raised |-> HTTPException(400, "Error processing PDF"),
          value |-> PyNone]

process_pdf_file(file) ==
    IF file.content = "good"
    THEN [raised |-> NoExc, value |-> "pages"]
    ELSE [raised |-> NoExc, value |-> ""]

process_image_file(file) ==
    IF file.content = "good"
    THEN [raised |-> NoExc, value |-> "format,size,mode"]
    ELSE [raised |-> NoExc, value |-> "{}"]

\* A variant: open(..., errors='replace'), which decodes any bytes.
read_text_replace(file) == [raised |-> NoExc, value |-> "content"]

\* open(file_path, 'r', encoding='utf-8').read() of the fallback branch.
read_text(file) ==
    IF file.content = "good"
    THEN [raised |-> NoExc, value |-> "content"]
    ELSE [raised |-> PyError("UnicodeDecodeError", "invalid utf-8"),
          value |-> PyNone]

(***************************************************************************)
(* scrape_wikipedia_table (lines 116-130).  A page is whether its URL can  *)
(* be fetched and the tables of its HTML, in document order.  With no      *)
(* table on the page pd.read_html raises ValueError or returns an empty    *)
(* list, as the pandas in use has it.                                      *)
(***************************************************************************)
\* The tables on one page.
MaxTables == 3

Tables == {"t1", "t2"}

Pages ==
    [reachable : BOOLEAN,
     tables : UNION { [1..n -> Tables] : n \in 0..MaxTables },
     empty : {"raises", "returns"}]

read_html(page) ==
    IF page.tables = <<>> /\ page.empty = "raises"
    THEN [raised |-> PyError("ValueError", "No tables found"), value |-> <<>>]
    ELSE [raised |-> NoExc, value |-> page.tables]

\* The body of the try block.
scrape_try(page) ==
    IF ~page.reachable
    THEN [raised |-> PyError("ConnectionError", "Max retries exceeded"),
          value |-> PyNone]
    ELSE LET tables == read_html(page) IN
         IF tables.raised # NoExc
         THEN [raised |-> tables.raised, value |-> PyNone]
         ELSE IF tables.value # <<>>
         THEN [raised |-> NoExc, value |-> tables.value[1]]
         ELSE [raised |-> HTTPException(404, "No tables found on the webpage"),
               value |-> PyNone]

\* except Exception as e: raise HTTPException(status_code=400, ...): the
\* clause is around the whole body, the raise of the 404 included.
scrape_wikipedia_table(page) ==
    LET body == scrape_try(page) IN
    IF body.raised # NoExc
    THEN [raised |-> HTTPException(400, "Error scraping data: " \o Str(body.raised)),
          value |-> PyNone]
    ELSE body

(***************************************************************************)
(* Python dicts and lists.                                                 *)
(***************************************************************************)
EmptyDict == [k \in {} |-> PyNone]

DictSet(d, k, v) == [x \in (DOMAIN d) \cup {k} |-> IF x = k THEN v ELSE d[x]]

EmptyInfo ==
    [files |-> <<>>, dataframes |-> <<>>, text_content |-> <<>>, images |-> <<>>]

(***************************************************************************)
(* One iteration of "for file in files" (lines 274-328), on the locals     *)
(* acc = [raised, file_context, file_info].  A binding is                  *)
(* [kind, origin, data]; a descriptor is [name, filename, detail].         *)
(***************************************************************************)
IngestFile(acc, file) ==
    LET fn == file.filename
        name == VarName(fn)
        listed == [acc.file_info EXCEPT !.files = Append(@, fn)]
    IN
    IF SaveRaises(fn)
    THEN [acc EXCEPT !.raised = PyError("FileNotFoundError", "No such file or directory")]
    ELSE CASE Branch(fn) = "csv" ->
              LET df == process_csv_file(file) IN
              IF df.raised # NoExc
              THEN [acc EXCEPT !.raised = df.raised]
              ELSE [raised |-> NoExc,
                    file_context |-> DictSet(acc.file_context, name,
                        [kind |-> "df", origin |-> fn, data |-> df.value]),
                    file_info |-> [listed EXCEPT !.dataframes = Append(@,
                        [name |-> name, filename |-> fn, detail |-> "shape,columns"])]]
           [] Branch(fn) = "pdf" ->
              LET text == process_pdf_file(file) IN
              IF text.raised # NoExc
              THEN [acc EXCEPT !.raised = text.raised]
              ELSE
              [raised |-> NoExc,
               file_context |-> DictSet(acc.file_context, name,
                   [kind |-> "text", origin |-> fn, data |-> text.value]),
               file_info |-> [listed EXCEPT !.text_content = Append(@,
                   [name |-> name, filename |-> fn,
                    detail |-> IF text.value = "" THEN "length 0" ELSE "length n"])]]
           [] Branch(fn) = "image" ->
              LET img_info == process_image_file(file) IN
              IF img_info.raised # NoExc
              THEN [acc EXCEPT !.raised = img_info.raised]
              ELSE
              [raised |-> NoExc,
               file_context |-> DictSet(acc.file_context, name,
                   [kind |-> "path", origin |-> fn, data |-> "file_path"]),
               file_info |-> [listed EXCEPT !.images = Append(@,
                   [name |-> name, filename |-> fn, detail |-> img_info.value])]]
           [] OTHER ->
              LET content == read_text(file) IN
              IF content.raised # NoExc
              THEN [acc EXCEPT !.file_info = listed]
              ELSE [raised |-> NoExc,
                    file_context |-> DictSet(acc.file_context, name,
                        [kind |-> "text", origin |-> fn, data |-> content.value]),
                    file_info |-> [listed EXCEPT !.text_content = Append(@,
                        [name |-> name, filename |-> fn, detail |-> "length n"])]]

\* The loop: files in upload order, left at the first exception.
RECURSIVE IngestFrom(_, _, _)
IngestFrom(acc, files, i) ==
    IF i > Len(files) \/ acc.raised # NoExc
    THEN acc
    ELSE IngestFrom(IngestFile(acc, files[i]), files, i + 1)

IngestAll(files) ==
    IngestFrom([raised |-> NoExc, file_context |-> EmptyDict,
                file_info |-> EmptyInfo], files, 1)

(***************************************************************************)
(* Where the loop saves a file (lines 275-279): file_path is               *)
(* Path(temp_dir) / file.filename, and open(file_path, "wb") creates or    *)
(* truncates what the path leads to.  An absolute filename replaces        *)
(* temp_dir in the join, and a leading ".." leads to the directory the     *)
(* workspace was made in.  A file on disk is [dir, name].                  *)
(***************************************************************************)
\* The directory mkdtemp makes the workspaces in, and the root directory.
TempRoot == -1
Root == -2

Resolve(d, filename) ==
    IF \A i \in 1..Len(filename) : filename[i] # "/"
    THEN [dir |-> d, name |-> filename]
    ELSE LET first == CHOOSE i \in 1..Len(filename) :
                          /\ filename[i] = "/"
                          /\ \A j \in 1..(i - 1) : filename[j] # "/"
             head == SubSeq(filename, 1, first - 1)
             rest == SubSeq(filename, first + 1, Len(filename))
         IN  CASE head = <<>> -> [dir |-> Root, name |-> rest]
               [] head = <<".", ".">> -> [dir |-> TempRoot, name |-> rest]
               [] OTHER -> [dir |-> d, name |-> rest]

\* The files the loop saves: every file whose iteration is reached and
\* whose open() succeeds; the save comes before the file is processed.
Written(d, files) ==
    { Resolve(d, files[i].filename) :
        i \in {j \in 1..Len(files) :
                  /\ IngestAll(SubSeq(files, 1, j - 1)).raised = NoExc
                  /\ ~SaveRaises(files[j].filename)} }

\* rmtree removes a workspace with everything in it and nothing else: of
\* the files on disk those are left that lie in a workspace that is left,
\* or outside the workspaces.
Remaining(files, dirs) ==
    {f \in files : f.dir \in dirs \cup {TempRoot, Root}}

(***************************************************************************)
(* The generated code.  What the model answers is outside the program: a   *)
(* script is given by what exec() of it does, raise or finish with some    *)
(* local variables bound.                                                  *)
(***************************************************************************)
NoCode == [text |-> "", raises |-> FALSE, local_vars |-> EmptyDict]

Scripts ==
    { [text |-> "result = 2 + 2", raises |-> FALSE,
       local_vars |-> DictSet(EmptyDict, "result", "4")],
      [text |-> "result = None", raises |-> FALSE,
       local_vars |-> DictSet(EmptyDict, "result", PyNone)],
      [text |-> "total = 2 + 2", raises |-> FALSE,
       local_vars |-> DictSet(EmptyDict, "total", "4")],
      [text |-> "import os", raises |-> TRUE,
       local_vars |-> EmptyDict] }

\* What comes back from chat.send_message: an error, or an answer from
\* which the code is extracted.
Replies == [failed : BOOLEAN, code : Scripts]

(***************************************************************************)
(* safe_globals is a new dict for every call, but the values under 'pd',   *)
(* 'np', 'plt', ... are the module objects of the process, the same for    *)
(* every request, and a script may set and read attributes on them (or     *)
(* leave pyplot's current figure behind).  lib is the request whose script *)
(* last did so (NoTask: none has).                                         *)
(***************************************************************************)
NoteWriter ==
    [text |-> "pd.note = 1; result = 1", raises |-> FALSE,
     local_vars |-> DictSet(EmptyDict, "result", "1")]

\* pd.note raises AttributeError as long as no script has set it.
NoteReader(lib) ==
    [text |-> "result = pd.note", raises |-> lib = NoTask,
     local_vars |-> IF lib = NoTask THEN EmptyDict
                    ELSE DictSet(EmptyDict, "result", "1")]

LibScripts(lib) == {NoteWriter, NoteReader(lib)}

\* What exec(code, safe_globals, local_vars) leaves on the module objects.
exec_writes(code, task, lib) == IF code = NoteWriter THEN task ELSE lib

\* The request whose write the script read (NoTask: it read none).
exec_reads(code, lib) == IF code = NoteReader(lib) THEN lib ELSE NoTask

(***************************************************************************)
(* Code extraction (lines 233-239).  A response is a sequence of tokens:   *)
(* the fence (three backquotes), a word (the language tags "python" and    *)
(* "py", a line of code "x") or a line break; tokens follow each other     *)
(* with nothing in between, so the fence followed by "python" is the text  *)
(* the code looks for first.                                               *)
(***************************************************************************)
\* Tokens in one response.
MaxTokens == 5

Fence == "<fence>"
NL == "\n"
Tokens == {Fence, "python", "py", NL, "x"}

Responses == UNION { [1..n -> Tokens] : n \in 0..MaxTokens }

\* The position of the first occurrence of sub in s (0: none).
IndexOf(s, sub) ==
    LET at == {i \in 1..(Len(s) - Len(sub) + 1) :
                   SubSeq(s, i, i + Len(sub) - 1) = sub}
    IN  IF at = {} THEN 0 ELSE CHOOSE i \in at : \A j \in at : i <= j

\* sub in s
Contains(s, sub) == IndexOf(s, sub) # 0

\* s.split(sub)[1] followed by a split on the fence takes the text after
\* the first occurrence of sub ...
After(s, sub) == SubSeq(s, IndexOf(s, sub) + Len(sub), Len(s))

\* ... and split(sub)[0] the text before the first occurrence, all of s
\* when there is none.
Before(s, sub) ==
    IF Contains(s, sub) THEN SubSeq(s, 1, IndexOf(s, sub) - 1) ELSE s

\* str.strip(): the line breaks at both ends are dropped.
Strip(s) ==
    LET ink == {i \in 1..Len(s) : s[i] # NL} IN
    IF ink = {} THEN <<>>
    ELSE SubSeq(s, CHOOSE i \in ink : \A j \in ink : i <= j,
                   CHOOSE i \in ink : \A j \in ink : i >= j)

extract_code(response) ==
    IF Contains(response, <<Fence, "python">>)
    THEN Strip(Before(After(response, <<Fence, "python">>), <<Fence>>))
    ELSE IF Contains(response, <<Fence>>)
    THEN Strip(Before(After(response, <<Fence>>), <<Fence>>))
    ELSE Strip(response)

\* A variant with a slip: the failed call is swallowed and empty code returned.
generate_analysis_code_swallow(reply) ==
    IF reply.failed
    THEN [raised |-> NoExc, value |-> NoCode]
    ELSE [raised |-> NoExc, value |-> reply.code]

\* generate_analysis_code: any exception of the call becomes
\* HTTPException(500).  reply.code is the script that extract_code made of
\* the response.
generate_analysis_code(reply) ==
    IF reply.failed
    THEN [raised |-> HTTPException(500, "LLM code generation error"),
          value |-> NoCode]
    ELSE [raised |-> NoExc, value |-> reply.code]

\* The keys of safe_globals: the restricted built-ins, the library handles
\* and the two helper functions.
Reserved ==
    { <<"_", "_", "b", "u", "i", "l", "t", "i", "n", "s", "_", "_">>,
      <<"p", "d">>,
      <<"n", "p">>,
      <<"p", "l", "t">>,
      <<"g", "o">>,
      <<"p", "x">>,
      <<"r", "e", "q", "u", "e", "s", "t", "s">>,
      <<"B", "e", "a", "u", "t", "i", "f", "u", "l", "S", "o", "u", "p">>,
      <<"b", "a", "s", "e", "6", "4">>,
      <<"B", "y", "t", "e", "s", "I", "O">>,
      <<"c", "r", "e", "a", "t", "e", "_", "p", "l", "o", "t", "_", "b", "a", "s", "e", "6", "4">>,
      <<"s", "c", "r", "a", "p", "e", "_", "w", "i", "k", "i", "p", "e", "d", "i", "a", "_", "t", "a", "b", "l", "e">> }

safe_globals == [name \in Reserved |-> [kind |-> "handle", origin |-> name, data |-> "handle"]]

\* safe_globals.update(context): a key of context replaces the same key of
\* safe_globals.
Namespace(context) ==
    [name \in Reserved \cup DOMAIN context |->
        IF name \in DOMAIN context THEN context[name] ELSE safe_globals[name]]

\* A variant with a slip: the exception's message is returned as the result.
execute_analysis_code_swallow(code, context) ==
    IF code.raises
    THEN [raised |-> NoExc, value |-> "Code execution error"]
    ELSE IF "result" \in DOMAIN code.local_vars
         THEN [raised |-> NoExc, value |-> code.local_vars["result"]]
         ELSE [raised |-> NoExc, value |-> Placeholder]

\* A variant with a slip: local_vars['result'] is read without the
\* membership test, so a script that binds no result raises KeyError.
execute_analysis_code_keyerror(code, context) ==
    IF code.raises \/ "result" \notin DOMAIN code.local_vars
    THEN [raised |-> HTTPException(500, "Code execution error"),
          value |-> PyNone]
    ELSE [raised |-> NoExc, value |-> code.local_vars["result"]]

\* execute_analysis_code: exec(code, safe_globals, local_vars), then the
\* value of 'result' in local_vars or the placeholder; any exception
\* becomes HTTPException(500).
execute_analysis_code(code, context) ==
    IF code.raises
    THEN [raised |-> HTTPException(500, "Code execution error"),
          value |-> PyNone]
    ELSE IF "result" \in DOMAIN code.local_vars
         THEN [raised |-> NoExc, value |-> code.local_vars["result"]]
         ELSE [raised |-> NoExc, value |-> Placeholder]

(***************************************************************************)
(* Responses: the HTTP status and, under 200, the AnalysisResult envelope. *)
(***************************************************************************)
NoResp ==
    [http |-> 0, task_id |-> NoTask, result |-> PyNone, status |-> "",
     error |-> PyNone]

\* FastAPI's answer when a required form field is missing.
ValidationError == [NoResp EXCEPT !.http = 422]

\* An exception that leaves the handler reaches the framework.
Propagated(e) ==
    [NoResp EXCEPT !.http = IF e.type = "HTTPException" THEN e.status_code ELSE 500]

\* return AnalysisResult(task_id, result, execution_time, status="completed")
Completed(task, value) ==
    [http |-> 200, task_id |-> task, result |-> value, status |-> "completed",
     error |-> PyNone]

\* A variant: "except HTTPException: raise" ahead of the catch-all, so an
\* HTTPException leaves the handler with its own status.
OuterExcept_reraise(task, e) ==
    IF e.type = "HTTPException"
    THEN Propagated(e)
    ELSE [http |-> 200, task_id |-> task, result |-> PyNone, status |-> "error",
          error |-> Str(e)]

\* A variant with a slip: the error envelope is given a uuid of its own.
OuterExcept_new_id(task, e) ==
    [http |-> 200, task_id |-> task + 1, result |-> PyNone, status |-> "error",
     error |-> Str(e)]

\* except Exception as e: return AnalysisResult(..., status="error", error=str(e))
OuterExcept(task, e) ==
    [http |-> 200, task_id |-> task, result |-> PyNone, status |-> "error",
     error |-> Str(e)]

\* A variant with a slip: rmtree at the end of the try block, not in a
\* finally clause.
Cleanup_on_success(dirs, d, raised) == IF raised THEN dirs ELSE dirs \ {d}

\* finally: shutil.rmtree(temp_dir, ignore_errors=True).  The clause runs
\* whether or not the block raised; removing a directory the process made
\* itself a moment ago is taken to succeed.
Cleanup(dirs, d, raised) == dirs \ {d}

\* A variant: questions: UploadFile = File(None), an optional field.
Validate_optional(has_questions) == TRUE

\* questions: UploadFile = File(...): the field is required.
Validate(has_questions) == has_questions

(***************************************************************************)
(* The request log.  A record is the AnalysisRequest document; timestamp,  *)
(* question and files_processed are written once and read by nothing, and  *)
(* are left out.                                                           *)
(***************************************************************************)
AnalysisRequest(task, status) == [task_id |-> task, status |-> status]

\* Records of requests served before this process started.
Stored(n) == [i \in 1..n |-> AnalysisRequest(-i, "completed")]

\* db.analysis_requests.find().to_list(length): no sort, no filter, so the
\* cursor yields the documents in natural (insertion) order and to_list
\* keeps the first `length` of them.
to_list(docs, length) ==
    SubSeq(docs, 1, IF Len(docs) < length THEN Len(docs) ELSE length)

\* A variant: to_list(None), every document.
get_analysis_tasks_unlimited(docs) == docs

get_analysis_tasks(docs) == to_list(docs, ListLimit)

(***************************************************************************)
(* State.                                                                  *)
(***************************************************************************)
VARIABLES
    pc,             \* handler -> "idle" | "await_model" | "await_log" | "done"
    task_id,        \* handler -> the uuid of its request (NoTask: none)
    temp_dir,       \* handler -> the workspace mkdtemp made (NoDir: none)
    file_context,   \* handler -> variable name -> binding
    file_info,      \* handler -> the summary sent to the model
    analysis_code,  \* handler -> the code the model returned
    result,         \* handler -> what execute_analysis_code returned
    resp,           \* handler -> the response sent (NoResp: none yet)
    log,            \* db.analysis_requests, in insertion order
    workspaces,     \* the temporary directories that exist on disk
    uuids,          \* how many task ids uuid4 has handed out
    listing,        \* what GET /api/tasks returned last
    \* history of the current request of each handler
    has_questions,  \* handler -> whether the submission held the question file
    stage_failed,   \* handler -> the stage that raised ("none": none)
    calls,          \* handler -> how often the model, exec and insert ran
    stages,         \* handler -> the stages entered, in the order entered
    observed,       \* handler -> the request whose library write its script read
    \* the process
    libs,           \* the request that last wrote to a library module object
    disk,           \* the files the requests saved that are on disk
    \* the utilities and the ingestion loop, run on their own
    loop,           \* the locals of "for file in files"
    scraped,        \* a page and what scrape_wikipedia_table made of it
    extracted       \* a model response and the code extracted from it

\* The state of the service.
service == <<pc, task_id, temp_dir, file_context, file_info, analysis_code,
             result, resp, log, workspaces, uuids, listing, has_questions,
             stage_failed, calls, stages, observed, libs, disk>>

\* The state of the utilities run on their own.
units == <<loop, scraped, extracted>>

vars == <<service, units>>

NoCalls == [model |-> 0, exec |-> 0, insert |-> 0]

\* No utility is being run on its own.
NoUnit == [op |-> "none"]

\* The service as it starts.
Started ==
    /\ pc = [h \in Handlers |-> "idle"]
    /\ task_id = [h \in Handlers |-> NoTask]
    /\ temp_dir = [h \in Handlers |-> NoDir]
    /\ file_context = [h \in Handlers |-> EmptyDict]
    /\ file_info = [h \in Handlers |-> EmptyInfo]
    /\ analysis_code = [h \in Handlers |-> NoCode]
    /\ result = [h \in Handlers |-> PyNone]
    /\ resp = [h \in Handlers |-> NoResp]
    /\ log \in {Stored(0), Stored(ListLimit - 1)}
    /\ workspaces = {}
    /\ uuids = 0
    /\ listing = <<>>
    /\ has_questions = [h \in Handlers |-> FALSE]
    /\ stage_failed = [h \in Handlers |-> "none"]
    /\ calls = [h \in Handlers |-> NoCalls]
    /\ stages = [h \in Handlers |-> <<>>]
    /\ observed = [h \in Handlers |-> NoTask]
    /\ libs = NoTask
    /\ disk = {}

Init ==
    /\ Started
    /\ loop = NoUnit
    /\ scraped = NoUnit
    /\ extracted = NoUnit

(***************************************************************************)
(* POST /api/ up to the model call (lines 247-331).                        *)
(*   has_q    the submission holds the question file                       *)
(*   decodes  the question file's bytes are UTF-8                          *)
(*   files    the auxiliary uploads                                        *)
(* The outcome is [pc, temp_dir, ctx, info, resp, stage, stages, dirs];    *)
(* stages lists the stages entered, in order.                              *)
(***************************************************************************)
\* tempfile.mkdtemp(): a directory that did not exist, one per request.
mkdtemp(task) == task

Entered(task, has_q, decodes, files, dirs) ==
    IF ~has_q
    THEN \* questions is None: questions.read() raises inside the try
         [pc |-> "done", temp_dir |-> NoDir, ctx |-> EmptyDict, info |-> EmptyInfo,
          resp |-> OuterExcept(task, PyError("AttributeError", "no attribute read")),
          stage |-> "decode", stages |-> <<>>, dirs |-> dirs]
    ELSE IF ~decodes
    THEN [pc |-> "done", temp_dir |-> NoDir, ctx |-> EmptyDict, info |-> EmptyInfo,
          resp |-> OuterExcept(task, PyError("UnicodeDecodeError", "invalid utf-8")),
          stage |-> "decode", stages |-> <<>>, dirs |-> dirs]
    ELSE LET d == mkdtemp(task)
             ing == IngestAll(files)
         IN  IF ing.raised # NoExc
             THEN [pc |-> "done", temp_dir |-> d, ctx |-> EmptyDict,
                   info |-> EmptyInfo,
                   resp |-> OuterExcept(task, ing.raised),
                   stage |-> IF ing.raised.type = "HTTPException"
                             THEN "csv" ELSE "save",
                   stages |-> <<"ingest", "cleanup">>,
                   dirs |-> Cleanup(dirs \cup {d}, d, TRUE)]
             ELSE [pc |-> "await_model", temp_dir |-> d,
                   ctx |-> ing.file_context, info |-> ing.file_info,
                   resp |-> NoResp, stage |-> "none",
                   stages |-> <<"ingest">>,
                   dirs |-> dirs \cup {d}]

\* The submissions told apart: without the question file, with a question
\* that is not UTF-8 (its uploads are never looked at), and with a question
\* that decodes and any uploads.
Submissions(uploads) ==
    {[has_q |-> FALSE, decodes |-> FALSE, files |-> <<>>],
     [has_q |-> TRUE, decodes |-> FALSE, files |-> <<>>]}
    \cup [has_q : {TRUE}, decodes : {TRUE}, files : uploads]

SubmitWith(h, uploads) ==
    /\ pc[h] \in {"idle", "done"}
    /\ \E sub \in Submissions(uploads) :
         /\ has_questions' = [has_questions EXCEPT ![h] = sub.has_q]
         /\ analysis_code' = [analysis_code EXCEPT ![h] = NoCode]
         /\ result' = [result EXCEPT ![h] = PyNone]
         /\ calls' = [calls EXCEPT ![h] = NoCalls]
         /\ observed' = [observed EXCEPT ![h] = NoTask]
         /\ IF ~Validate(sub.has_q)
            THEN \* 422 from the framework: the handler body does not run
                 /\ pc' = [pc EXCEPT ![h] = "done"]
                 /\ task_id' = [task_id EXCEPT ![h] = NoTask]
                 /\ temp_dir' = [temp_dir EXCEPT ![h] = NoDir]
                 /\ file_context' = [file_context EXCEPT ![h] = EmptyDict]
                 /\ file_info' = [file_info EXCEPT ![h] = EmptyInfo]
                 /\ resp' = [resp EXCEPT ![h] = ValidationError]
                 /\ stage_failed' = [stage_failed EXCEPT ![h] = "validation"]
                 /\ stages' = [stages EXCEPT ![h] = <<>>]
                 /\ UNCHANGED <<workspaces, uuids, disk>>
            ELSE /\ uuids < MaxRequests
                 /\ \E task \in {uuids + 1} :
                    \E out \in {Entered(task, sub.has_q, sub.decodes, sub.files,
                                        workspaces)} :
                        /\ uuids' = task
                        /\ pc' = [pc EXCEPT ![h] = out.pc]
                        /\ task_id' = [task_id EXCEPT ![h] = task]
                        /\ temp_dir' = [temp_dir EXCEPT ![h] = out.temp_dir]
                        /\ file_context' = [file_context EXCEPT ![h] = out.ctx]
                        /\ file_info' = [file_info EXCEPT ![h] = out.info]
                        /\ resp' = [resp EXCEPT ![h] = out.resp]
                        /\ stage_failed' = [stage_failed EXCEPT ![h] = out.stage]
                        /\ stages' = [stages EXCEPT ![h] = out.stages]
                        /\ workspaces' = out.dirs
                        /\ disk' = IF out.temp_dir = NoDir
                                   THEN disk
                                   ELSE Remaining(
                                            disk \cup Written(out.temp_dir, sub.files),
                                            out.dirs)
    /\ UNCHANGED <<log, listing, libs, units>>

Submit(h) == SubmitWith(h, Uploads)

(***************************************************************************)
(* The model call returns; the code is executed (lines 331-335).  The      *)
(* bindings and the summary are not read after this point and are dropped  *)
(* from the state.                                                         *)
(* The outcome is [pc, code, result, resp, calls, stages, dirs];            *)
(* stage_failed records what went wrong outside the program: the model     *)
(* call, or the script raising.                                            *)
(***************************************************************************)
\* A variant with a slip: a failed model call is tried once more before the
\* request is given up.
Answered_retry(task, reply, context, d, dirs) ==
    LET gen == generate_analysis_code(reply) IN
    IF gen.raised # NoExc
    THEN [pc |-> "done", code |-> NoCode, result |-> PyNone,
          resp |-> OuterExcept(task, gen.raised),
          calls |-> [model |-> 2, exec |-> 0, insert |-> 0],
          stages |-> <<"model", "model", "cleanup">>,
          dirs |-> Cleanup(dirs, d, TRUE)]
    ELSE LET ex == execute_analysis_code(gen.value, context) IN
         IF ex.raised # NoExc
         THEN [pc |-> "done", code |-> gen.value, result |-> PyNone,
               resp |-> OuterExcept(task, ex.raised),
               calls |-> [model |-> 1, exec |-> 1, insert |-> 0],
               stages |-> <<"model", "exec", "cleanup">>,
               dirs |-> Cleanup(dirs, d, TRUE)]
         ELSE [pc |-> "await_log", code |-> gen.value, result |-> ex.value,
               resp |-> NoResp,
               calls |-> [model |-> 1, exec |-> 1, insert |-> 0],
               stages |-> <<"model", "exec">>,
               dirs |-> dirs]

Answered(task, reply, context, d, dirs) ==
    LET gen == generate_analysis_code(reply) IN
    IF gen.raised # NoExc
    THEN [pc |-> "done", code |-> NoCode, result |-> PyNone,
          resp |-> OuterExcept(task, gen.raised),
          calls |-> [model |-> 1, exec |-> 0, insert |-> 0],
          stages |-> <<"model", "cleanup">>,
          dirs |-> Cleanup(dirs, d, TRUE)]
    ELSE LET ex == execute_analysis_code(gen.value, context) IN
         IF ex.raised # NoExc
         THEN [pc |-> "done", code |-> gen.value, result |-> PyNone,
               resp |-> OuterExcept(task, ex.raised),
               calls |-> [model |-> 1, exec |-> 1, insert |-> 0],
               stages |-> <<"model", "exec", "cleanup">>,
               dirs |-> Cleanup(dirs, d, TRUE)]
         ELSE [pc |-> "await_log", code |-> gen.value, result |-> ex.value,
               resp |-> NoResp,
               calls |-> [model |-> 1, exec |-> 1, insert |-> 0],
               stages |-> <<"model", "exec">>,
               dirs |-> dirs]

\* The model answers one of `replies`.  exec() runs the script against the
\* library module objects of the process: what the script writes to them
\* stays, and h's script may read what another request's script wrote.
ModelReplyFrom(h, replies) ==
    /\ pc[h] = "await_model"
    /\ \E reply \in replies :
         \E out \in {Answered(task_id[h], reply, file_context[h], temp_dir[h],
                              workspaces)} :
             /\ pc' = [pc EXCEPT ![h] = out.pc]
             /\ analysis_code' = [analysis_code EXCEPT ![h] = out.code]
             /\ result' = [result EXCEPT ![h] = out.result]
             /\ resp' = [resp EXCEPT ![h] = out.resp]
             /\ stage_failed' = [stage_failed EXCEPT ![h] =
                    IF reply.failed THEN "model"
                    ELSE IF reply.code.raises THEN "exec" ELSE "none"]
             /\ calls' = [calls EXCEPT ![h] = out.calls]
             /\ stages' = [stages EXCEPT ![h] = @ \o out.stages]
             /\ workspaces' = out.dirs
             /\ disk' = Remaining(disk, out.dirs)
             /\ libs' = IF out.calls.exec > 0
                        THEN exec_writes(out.code, task_id[h], libs)
                        ELSE libs
             /\ observed' = [observed EXCEPT ![h] =
                    IF out.calls.exec > 0
                    THEN exec_reads(out.code, libs)
                    ELSE NoTask]
    /\ file_context' = [file_context EXCEPT ![h] = EmptyDict]
    /\ file_info' = [file_info EXCEPT ![h] = EmptyInfo]
    /\ UNCHANGED <<task_id, temp_dir, log, uuids, listing, has_questions, units>>

ModelReply(h) == ModelReplyFrom(h, Replies)

(***************************************************************************)
(* insert_one returns or raises; the response; the finally clause          *)
(* (lines 337-357).  The outcome is [docs, resp, stages, dirs].            *)
(***************************************************************************)
\* A variant with a slip: a failed insert is logged and passed over, and
\* the result is returned as if the record had been written.
Logged_swallow(task, value, inserted, docs, d, dirs) ==
    [docs |-> IF inserted THEN Append(docs, AnalysisRequest(task, "completed"))
              ELSE docs,
     resp |-> Completed(task, value),
     stages |-> <<"log", "cleanup">>,
     dirs |-> Cleanup(dirs, d, FALSE)]

Logged(task, value, inserted, docs, d, dirs) ==
    IF inserted
    THEN [docs |-> Append(docs, AnalysisRequest(task, "completed")),
          resp |-> Completed(task, value),
          stages |-> <<"log", "cleanup">>,
          dirs |-> Cleanup(dirs, d, FALSE)]
    ELSE [docs |-> docs,
          resp |-> OuterExcept(task, PyError("PyMongoError", "insert failed")),
          stages |-> <<"log", "cleanup">>,
          dirs |-> Cleanup(dirs, d, TRUE)]

LogWrite(h) ==
    /\ pc[h] = "await_log"
    /\ \E inserted \in BOOLEAN :
         \E out \in {Logged(task_id[h], result[h], inserted, log, temp_dir[h],
                            workspaces)} :
             /\ log' = out.docs
             /\ resp' = [resp EXCEPT ![h] = out.resp]
             /\ stage_failed' = [stage_failed EXCEPT ![h] =
                    IF inserted THEN "none" ELSE "log"]
             /\ stages' = [stages EXCEPT ![h] = @ \o out.stages]
             /\ workspaces' = out.dirs
             /\ disk' = Remaining(disk, out.dirs)
    /\ pc' = [pc EXCEPT ![h] = "done"]
    /\ calls' = [calls EXCEPT ![h].insert = 1]
    /\ UNCHANGED <<task_id, temp_dir, file_context, file_info, analysis_code,
                   result, uuids, listing, has_questions, observed, libs,
                   units>>

(***************************************************************************)
(* GET /api/tasks (lines 376-380).                                         *)
(***************************************************************************)
ListTasks ==
    /\ listing' = get_analysis_tasks(log)
    /\ UNCHANGED <<pc, task_id, temp_dir, file_context, file_info,
                   analysis_code, result, resp, log, workspaces, uuids,
                   has_questions, stage_failed, calls, stages, observed,
                   libs, disk, units>>

\* Requests served one after the other, on one connection.
Next ==
    \/ \E h \in Serial : Submit(h)
    \/ \E h \in Serial : ModelReply(h)
    \/ \E h \in Serial : LogWrite(h)
    \/ ListTasks

Spec == Init /\ [][Next]_vars

(***************************************************************************)
(* Requests whose uploads carry a path as filename: the filename of a      *)
(* multipart part is what the client sent, separators, ".." and a leading  *)
(* "/" included.                                                           *)
(***************************************************************************)
PathFileNames ==
    { <<"e", ".", "c", "s", "v">>,
      <<".", "/", "e", ".", "c", "s", "v">>,
      <<".", ".", "/", "e", ".", "c", "s", "v">>,
      <<"/", "e", ".", "c", "s", "v">>,
      <<"s", "/", "e", ".", "c", "s", "v">> }

PathUploads ==
    UNION { [1..n -> [filename : PathFileNames, content : {"good", "bad"}]] :
              n \in 0..MaxFiles }

NextPaths ==
    \/ \E h \in Serial : SubmitWith(h, PathUploads)
    \/ \E h \in Serial : ModelReply(h)
    \/ \E h \in Serial : LogWrite(h)

SpecPaths == Init /\ [][NextPaths]_vars

(***************************************************************************)
(* Requests served concurrently, on two connections: a handler runs until  *)
(* its next await, where the other may run.  The requests carry no         *)
(* auxiliary upload; their scripts may use the library module objects.     *)
(***************************************************************************)
ConcurrentReplies(lib) ==
    [failed : BOOLEAN, code : {c \in Scripts : c.text = "result = 2 + 2"}]
    \cup [failed : {FALSE}, code : LibScripts(lib)]

NextConcurrent ==
    \/ \E h \in Handlers : SubmitWith(h, {<<>>})
    \/ \E h \in Handlers : ModelReplyFrom(h, ConcurrentReplies(libs))
    \/ \E h \in Handlers : LogWrite(h)
    \/ ListTasks

SpecConcurrent == Init /\ [][NextConcurrent]_vars

(***************************************************************************)
(* The ingestion loop on its own (lines 266-328): "for file in files" over *)
(* any list of uploads, one iteration a step.  The names cover every       *)
(* suffix the loop tells apart in both cases, names without a suffix,      *)
(* names with characters replace() leaves alone, two names that give one   *)
(* variable name, and a name that cannot be saved.                         *)
(***************************************************************************)
\* Files in the list the loop runs over.
MaxLoopFiles == 2

LoopFileNames ==
    { <<"a", ".", "c", "s", "v">>,
      <<"a", ".", "C", "S", "V">>,
      <<"b", ".", "p", "d", "f">>,
      <<"b", ".", "P", "D", "F">>,
      <<"c", ".", "p", "n", "g">>,
      <<"c", ".", "P", "N", "G">>,
      <<"c", ".", "j", "p", "g">>,
      <<"c", ".", "J", "P", "E", "G">>,
      <<"d", ".", "t", "x", "t">>,
      <<"p", "d">>,
      <<"c", "s", "v">>,
      <<"a", " ", "b", ".", "c", "s", "v">>,
      <<"a", "-", "b", ".", "t", "x", "t">>,
      <<"a", ".", "b", ".", "t", "x", "t">>,
      <<"s", "/", "e", ".", "c", "s", "v">> }

LoopFiles == [filename : LoopFileNames, content : {"good", "bad"}]

LoopUploads == UNION { [1..n -> LoopFiles] : n \in 0..MaxLoopFiles }

InitLoop ==
    /\ Started
    /\ log = Stored(0)
    /\ scraped = NoUnit
    /\ extracted = NoUnit
    /\ loop \in [op : {"for"}, files : LoopUploads, i : {1}, raised : {NoExc},
                 file_context : {EmptyDict}, file_info : {EmptyInfo}]

\* One iteration: the file at position i is saved and ingested; an
\* exception leaves the loop.
Iterate ==
    /\ loop.op = "for"
    /\ loop.raised = NoExc
    /\ loop.i <= Len(loop.files)
    /\ \E acc \in {IngestFile([raised |-> NoExc,
                                file_context |-> loop.file_context,
                                file_info |-> loop.file_info],
                               loop.files[loop.i])} :
         loop' = [loop EXCEPT !.i = IF acc.raised = NoExc THEN @ + 1 ELSE @,
                              !.raised = acc.raised,
                              !.file_context = acc.file_context,
                              !.file_info = acc.file_info]
    /\ UNCHANGED <<service, scraped, extracted>>

NextLoop == Iterate

SpecLoop == InitLoop /\ [][NextLoop]_vars

(***************************************************************************)
(* Code extraction on its own: applied to any response.                    *)
(***************************************************************************)
InitExtract ==
    /\ Started
    /\ log = Stored(0)
    /\ loop = NoUnit
    /\ scraped = NoUnit
    /\ extracted \in [op : {"call"}, response : Responses, code : {<<>>}]

Extract ==
    /\ extracted.op = "call"
    /\ extracted' = [op |-> "return", response |-> extracted.response,
                     code |-> extract_code(extracted.response)]
    /\ UNCHANGED <<service, loop, scraped>>

NextExtract == Extract

SpecExtract == InitExtract /\ [][NextExtract]_vars

(***************************************************************************)
(* scrape_wikipedia_table on its own: called on any page.                  *)
(***************************************************************************)
InitScrape ==
    /\ Started
    /\ log = Stored(0)
    /\ loop = NoUnit
    /\ extracted = NoUnit
    /\ scraped \in [op : {"call"}, page : Pages, out : {[raised |-> NoExc, value |-> PyNone]}]

Scrape ==
    /\ scraped.op = "call"
    /\ scraped' = [op |-> "return", page |-> scraped.page,
                   out |-> scrape_wikipedia_table(scraped.page)]
    /\ UNCHANGED <<service, loop, extracted>>

NextScrape == Scrape

SpecScrape == InitScrape /\ [][NextScrape]_vars

(***************************************************************************)
(* Properties.                                                             *)
(***************************************************************************)
\* The handler body ran for h's request and has returned.
Returned(h) == pc[h] = "done" /\ task_id[h] # NoTask

\* The records of the log that carry a task id.
RecordsOf(task) == {i \in DOMAIN log : log[i].task_id = task}

\* The script of h's request was executed and finished without raising.
Finished(h) == calls[h].exec = 1 /\ ~analysis_code[h].raises

\* C1, as stated: an envelope's status is "completed" or "error"; a
\* completed envelope has a non-null result and no error; a request in
\* which a stage failed gets an envelope with status "error", a null result,
\* an error message and the task id generated at entry.
C1_EnvelopeAsStated ==
    \A h \in Handlers : Returned(h) =>
        /\ resp[h].http = 200 =>
             /\ resp[h].status \in {"completed", "error"}
             /\ resp[h].status = "completed" =>
                  resp[h].result # PyNone /\ resp[h].error = PyNone
        /\ stage_failed[h] # "none" =>
             /\ resp[h].http = 200
             /\ resp[h].status = "error"
             /\ resp[h].result = PyNone
             /\ resp[h].error # PyNone
             /\ resp[h].task_id = task_id[h]

\* C1, amended: as stated, except that a completed envelope carries the
\* value execute_analysis_code returned, which is null exactly when the
\* script itself bound 'result' to None.
C1_Envelope ==
    \A h \in Handlers : Returned(h) =>
        /\ resp[h].http = 200
        /\ resp[h].status \in {"completed", "error"}
        /\ resp[h].task_id = task_id[h]
        /\ resp[h].status = "completed" =>
             /\ stage_failed[h] = "none"
             /\ resp[h].error = PyNone
             /\ resp[h].result = result[h]
             /\ resp[h].result = PyNone =>
                  /\ "result" \in DOMAIN analysis_code[h].local_vars
                  /\ analysis_code[h].local_vars["result"] = PyNone
        /\ stage_failed[h] # "none" =>
             /\ resp[h].status = "error"
             /\ resp[h].result = PyNone
             /\ resp[h].error # PyNone

\* C1's case: a completed envelope whose result is null, the script having
\* bound 'result' to None.
C1_Witness ==
    \E h \in Handlers :
        /\ Returned(h)
        /\ resp[h].status = "completed"
        /\ resp[h].result = PyNone

\* C2, as stated: every request the handler answered, completed or failed,
\* has exactly one record in the log, and the record carries the outcome.
C2_OneRecordPerRequest ==
    \A h \in Handlers : Returned(h) /\ resp[h].http = 200 =>
        /\ Cardinality(RecordsOf(resp[h].task_id)) = 1
        /\ \A i \in RecordsOf(resp[h].task_id) : log[i].status = resp[h].status

\* C3: once a request that made a workspace has been answered, its
\* workspace is gone, whichever stage failed; the workspaces that exist
\* belong to requests still in flight.
C3_WorkspaceRemoved ==
    /\ \A h \in Handlers :
         pc[h] = "done" /\ temp_dir[h] # NoDir => temp_dir[h] \notin workspaces
    /\ \A d \in workspaces :
         \E h \in Handlers :
             pc[h] \in {"await_model", "await_log"} /\ temp_dir[h] = d

\* C3's case: a request that made a workspace and failed in code execution
\* has been answered.
C3_Witness ==
    \E h \in Handlers :
        /\ pc[h] = "done"
        /\ temp_dir[h] # NoDir
        /\ stage_failed[h] = "exec"

\* C4: a submission without the question file is answered 422; no task id
\* is generated, no workspace made, the model is not called, nothing is
\* executed or logged.
C4_MissingQuestionRejected ==
    \A h \in Handlers : pc[h] = "done" /\ ~has_questions[h] =>
        /\ resp[h] = ValidationError
        /\ task_id[h] = NoTask
        /\ temp_dir[h] = NoDir
        /\ calls[h] = NoCalls
        /\ stage_failed[h] = "validation"

\* C4's case: a submission without the question file has been answered
\* after other requests were served.
C4_Witness ==
    \E h \in Handlers :
        /\ pc[h] = "done"
        /\ ~has_questions[h]
        /\ resp[h].http = 422
        /\ uuids > 0

\* C5: when the executed code raises, the request ends with a 200 envelope
\* of status "error", a null result and an error message.
C5_ExecErrorEnvelope ==
    \A h \in Handlers : calls[h].exec = 1 /\ analysis_code[h].raises =>
        /\ pc[h] = "done"
        /\ resp[h].http = 200
        /\ resp[h].status = "error"
        /\ resp[h].result = PyNone
        /\ resp[h].error = Str(HTTPException(500, "Code execution error"))
        /\ resp[h].task_id = task_id[h]
        /\ calls[h].insert = 0

\* C5's case: a script that raises has been executed.
C5_Witness ==
    \E h \in Handlers :
        calls[h].exec = 1 /\ analysis_code[h].raises /\ pc[h] = "done"

\* C6, as stated: when an uploaded .csv file cannot be parsed the caller
\* gets HTTP 400, not a 200 envelope, and no record is persisted.
C6_CsvErrorIs400 ==
    \A h \in Handlers : pc[h] = "done" /\ stage_failed[h] = "csv" =>
        /\ resp[h].http = 400
        /\ RecordsOf(task_id[h]) = {}

\* C6, amended: when an uploaded .csv file cannot be parsed the request is
\* aborted, the HTTPException(400) is caught by the handler and the caller
\* gets a 200 envelope with status "error", a null result and str() of
\* that exception as error; no record is persisted.
C6_CsvErrorEnvelope ==
    \A h \in Handlers : stage_failed[h] = "csv" =>
        /\ pc[h] = "done"
        /\ resp[h] = [http |-> 200, task_id |-> task_id[h], result |-> PyNone,
                      status |-> "error",
                      error |-> Str(HTTPException(400, "Error processing CSV"))]
        /\ RecordsOf(task_id[h]) = {}

\* C6's case: a request with a malformed .csv upload has been answered.
C6_Witness ==
    \E h \in Handlers :
        pc[h] = "done" /\ stage_failed[h] = "csv" /\ temp_dir[h] # NoDir

\* C7, as stated: when the model call fails the caller gets a 5xx status,
\* not a 200 envelope.
C7_ModelErrorIs5xx ==
    \A h \in Handlers : pc[h] = "done" /\ stage_failed[h] = "model" =>
        resp[h].http \in 500..599

\* C7, amended: when the model call fails the HTTPException(500) is caught
\* by the handler and the caller gets a 200 envelope with status "error", a
\* null result and str() of that exception as error.
C7_ModelErrorEnvelope ==
    \A h \in Handlers : stage_failed[h] = "model" =>
        /\ pc[h] = "done"
        /\ resp[h] = [http |-> 200, task_id |-> task_id[h], result |-> PyNone,
                      status |-> "error",
                      error |-> Str(HTTPException(500, "LLM code generation error"))]

\* C7's case: a request whose model call failed has been answered.
C7_Witness ==
    \E h \in Handlers :
        pc[h] = "done" /\ stage_failed[h] = "model" /\ calls[h].model = 1

\* C8, as stated: once a request has completed, the listing holds a record
\* with the task id of its response, however many records came before.
C8_CompletedIsListed ==
    \A h \in Handlers : Returned(h) /\ resp[h].status = "completed" =>
        \E i \in DOMAIN get_analysis_tasks(log) :
            get_analysis_tasks(log)[i].task_id = resp[h].task_id

\* C9: a call of the listing endpoint returns at most 100 entries, each of
\* them a record of the log, and leaves the log as it was.
C9_ListingBounded ==
    [][ListTasks =>
          /\ log' = log
          /\ Len(listing') <= ListLimit
          /\ \A i \in DOMAIN listing' :
                \E j \in DOMAIN log : log[j] = listing'[i]]_vars

\* C9's case: the listing was asked for while the log held more than 100
\* records, and returned 100 of them.
C9_Witness == Len(log) > ListLimit /\ Len(listing) = ListLimit

\* C10, as stated: a script that finishes and binds 'result' yields that
\* value; one that finishes without binding it yields the placeholder, and
\* the request ends with status "completed".
C10_PlaceholderCompletes ==
    \A h \in Handlers : Finished(h) =>
        LET local_vars == analysis_code[h].local_vars IN
        /\ "result" \in DOMAIN local_vars => result[h] = local_vars["result"]
        /\ "result" \notin DOMAIN local_vars =>
             /\ result[h] = Placeholder
             /\ pc[h] = "done" => resp[h].status = "completed"

\* C10, amended: as stated, except that the request ends with status
\* "completed" (the placeholder as its result) unless the log write that
\* follows fails; then it ends with status "error".
C10_ResultOrPlaceholder ==
    \A h \in Handlers : Finished(h) =>
        LET local_vars == analysis_code[h].local_vars IN
        /\ pc[h] \in {"await_log", "done"}
        /\ "result" \in DOMAIN local_vars => result[h] = local_vars["result"]
        /\ "result" \notin DOMAIN local_vars => result[h] = Placeholder
        /\ pc[h] = "done" =>
             \/ /\ stage_failed[h] = "none"
                /\ resp[h].status = "completed"
                /\ resp[h].result = result[h]
             \/ /\ stage_failed[h] = "log"
                /\ resp[h].status = "error"

\* C10's case: a script that binds no 'result' has finished and its
\* request has completed with the placeholder.
C10_Witness ==
    \E h \in Handlers :
        /\ Finished(h)
        /\ "result" \notin DOMAIN analysis_code[h].local_vars
        /\ pc[h] = "done"
        /\ resp[h].status = "completed"
        /\ resp[h].result = Placeholder

\* C11, as stated: scrape_wikipedia_table returns the first table of a page
\* that has one; on a page without a table its caller sees the not-found
\* error, status 404, which no other scraping failure carries.
C11_NoTableIs404 ==
    scraped.op = "return" =>
        LET page == scraped.page
            out == scraped.out
        IN  /\ page.reachable /\ page.tables # <<>> =>
                 out.raised = NoExc /\ out.value = page.tables[1]
            /\ page.reachable /\ page.tables = <<>> =>
                 /\ out.raised.type = "HTTPException"
                 /\ out.raised.status_code = 404
            /\ ~page.reachable => out.raised.status_code # 404

\* C12, as stated: under every interleaving of concurrent requests, each
\* request appends at most one record to the log, no two records carry the
\* same task id, no step changes or removes a record that is in the log,
\* and a request observes no state of another request but the log: its
\* script reads nothing another request's script left behind.
C12_OnlyLogShared ==
    [][/\ \/ log' = log
          \/ \E h \in Handlers :
                /\ log' = Append(log, AnalysisRequest(task_id[h], "completed"))
                /\ RecordsOf(task_id[h]) = {}
       /\ \A i, j \in DOMAIN log' :
             log'[i].task_id = log'[j].task_id => i = j
       /\ \A h \in Handlers : observed'[h] \in {NoTask, task_id'[h]}]_vars

\* C13: for every uploaded filename the variable name made for its binding
\* is none of the reserved namespace names, so in the namespace with the
\* file bindings merged in every reserved name still holds its own handle.
C13_ReservedNamesKept ==
    loop.op = "for" =>
        /\ \A i \in 1..Len(loop.files) :
             VarName(loop.files[i].filename) \notin Reserved
        /\ DOMAIN loop.file_context \cap Reserved = {}
        /\ \A name \in Reserved :
             Namespace(loop.file_context)[name] = safe_globals[name]

\* C13's case: a file whose name is itself a reserved name has been
\* ingested and bound.
C13_Witness ==
    /\ loop.op = "for"
    /\ \E name \in DOMAIN loop.file_context :
         loop.file_context[name].origin \in Reserved

\* The stages of one request, in the order of the code.
StageOrder == <<"ingest", "model", "exec", "log", "cleanup">>

Rank(stage) == CHOOSE k \in DOMAIN StageOrder : StageOrder[k] = stage

Entered_stage(h, stage) == \E i \in DOMAIN stages[h] : stages[h][i] = stage

\* C14: within a request the stages are entered in the order ingest, model
\* call, code execution, log write, workspace removal, each at most once;
\* the model is called only after ingestion ended without a fatal error,
\* the code is executed only after the model call returned, the log is
\* written only after execution returned a value, and the workspace is
\* removed last, after code execution has ended.
C14_StagesInOrder ==
    \A h \in Handlers :
        /\ \A i, j \in DOMAIN stages[h] :
             /\ stages[h][i] \in {StageOrder[k] : k \in DOMAIN StageOrder}
             /\ i < j => Rank(stages[h][i]) < Rank(stages[h][j])
        /\ calls[h].model <= 1 /\ calls[h].exec <= 1 /\ calls[h].insert <= 1
        /\ Entered_stage(h, "model") <=> calls[h].model > 0
        /\ Entered_stage(h, "exec") <=> calls[h].exec > 0
        /\ Entered_stage(h, "log") <=> calls[h].insert > 0
        /\ temp_dir[h] # NoDir =>
             (Entered_stage(h, "cleanup") <=> temp_dir[h] \notin workspaces)
        /\ Entered_stage(h, "model") =>
             /\ Entered_stage(h, "ingest")
             /\ stage_failed[h] \notin {"validation", "decode", "save", "csv"}
        /\ Entered_stage(h, "exec") =>
             /\ Entered_stage(h, "model")
             /\ stage_failed[h] # "model"
        /\ Entered_stage(h, "log") =>
             /\ Entered_stage(h, "exec")
             /\ Finished(h)
        /\ Entered_stage(h, "cleanup") => pc[h] = "done"

\* C14's case: a request has gone through all five stages.
C14_Witness == \E h \in Handlers : stages[h] = StageOrder /\ Returned(h)

\* The fences of a response.
FencesOf(r) == {i \in 1..Len(r) : r[i] = Fence}

\* A response with one fenced block: an opening fence line (the fence, a
\* language tag or none, a line break), the block's lines, and a closing
\* fence at the end of the response or of its line.
OneBlock(r) ==
    /\ Cardinality(FencesOf(r)) = 2
    /\ LET open == IndexOf(r, <<Fence>>)
           close == CHOOSE i \in FencesOf(r) : i # open
       IN  /\ \/ open + 1 < close /\ r[open + 1] = NL
              \/ open + 2 < close /\ r[open + 1] \in {"python", "py"}
                                  /\ r[open + 2] = NL
           /\ close = Len(r) \/ r[close + 1] = NL

\* The text inside the fence: what follows the opening fence line, up to
\* the closing fence, without the line breaks at its ends.
BlockContent(r) ==
    Strip(Before(After(After(r, <<Fence>>), <<NL>>), <<Fence>>))

\* C15, as stated: from a response with a fenced block, tagged python, with
\* another tag or with none, the code extracted is the text inside the
\* fence, without the fence line or the language tag on it; from a response
\* without a fence it is the whole response.
C15_BlockContentExtracted ==
    extracted.op = "return" =>
        /\ OneBlock(extracted.response) =>
             extracted.code = BlockContent(extracted.response)
        /\ FencesOf(extracted.response) = {} =>
             extracted.code = Strip(extracted.response)

\* The descriptor entries of a file summary, of all three lists.
Descriptors(info) == info.dataframes \o info.text_content \o info.images

\* C16, as stated: after ingesting any list of files, names distinct or
\* not, the context holds as many bindings as there are descriptor
\* entries, and every descriptor's name refers to the binding made from
\* that descriptor's own file.
C16_OneBindingPerFile ==
    loop.op = "for" =>
        /\ Cardinality(DOMAIN loop.file_context)
             = Len(Descriptors(loop.file_info))
        /\ \A k \in DOMAIN Descriptors(loop.file_info) :
             LET entry == Descriptors(loop.file_info)[k] IN
             /\ entry.name \in DOMAIN loop.file_context
             /\ loop.file_context[entry.name].origin = entry.filename

\* The characters of a Python identifier: letters, digits, the underscore.
IdentChars ==
    { "a", "b", "c", "d", "e", "f", "g", "h", "i", "j", "k", "l", "m",
      "n", "o", "p", "q", "r", "s", "t", "u", "v", "w", "x", "y", "z",
      "A", "B", "C", "D", "E", "F", "G", "H", "I", "J", "K", "L", "M",
      "N", "O", "P", "Q", "R", "S", "T", "U", "V", "W", "X", "Y", "Z",
      "0", "1", "2", "3", "4", "5", "6", "7", "8", "9",
      "_" }

\* C17, as stated: the variable name made for a file is a function of its
\* filename in which every character that is no letter or digit has been
\* replaced, so the name consists of letters, digits and underscores only.
C17_NameIsIdentifier ==
    loop.op = "for" =>
        \A var_name \in DOMAIN loop.file_context :
            /\ var_name = VarName(loop.file_context[var_name].origin)
            /\ \A k \in 1..Len(var_name) : var_name[k] \in IdentChars

\* The file of the iteration that is about to run.
Current == loop.files[loop.i]

\* The file is saved and is of the given branch, and its bytes are not
\* what the branch reads.
Unreadable(file, branch) ==
    /\ ~SaveRaises(file.filename)
    /\ Branch(file.filename) = branch
    /\ file.content = "bad"

\* C18: an iteration on a .pdf whose text cannot be extracted, or on an
\* image that cannot be opened, raises nothing: the file gets its binding
\* (the empty string, the saved file's path) and its descriptor entry
\* (length 0, an empty info map), the loop goes on with the next file, and
\* a request with this upload reaches the model call.
C18_DegradedNotFatal ==
    [][/\ Unreadable(Current, "pdf") =>
            /\ loop'.raised = NoExc
            /\ loop'.i = loop.i + 1
            /\ loop'.file_context =
                 DictSet(loop.file_context, VarName(Current.filename),
                         [kind |-> "text", origin |-> Current.filename,
                          data |-> ""])
            /\ loop'.file_info.text_content =
                 Append(loop.file_info.text_content,
                        [name |-> VarName(Current.filename),
                         filename |-> Current.filename,
                         detail |-> "length 0"])
            /\ Entered(1, TRUE, TRUE, <<Current>>, {}).pc = "await_model"
       /\ Unreadable(Current, "image") =>
            /\ loop'.raised = NoExc
            /\ loop'.i = loop.i + 1
            /\ loop'.file_context =
                 DictSet(loop.file_context, VarName(Current.filename),
                         [kind |-> "path", origin |-> Current.filename,
                          data |-> "file_path"])
            /\ loop'.file_info.images =
                 Append(loop.file_info.images,
                        [name |-> VarName(Current.filename),
                         filename |-> Current.filename,
                         detail |-> "{}"])
            /\ Entered(1, TRUE, TRUE, <<Current>>, {}).pc = "await_model"]_vars

\* C18's case: the loop has ingested a .pdf without extractable text and
\* stands before the file that follows it.
C18_Witness ==
    /\ loop.op = "for"
    /\ loop.i = 2
    /\ Len(loop.files) = 2
    /\ Unreadable(loop.files[1], "pdf")
    /\ loop.raised = NoExc

\* C19, as stated: an iteration on a file of unsupported type whose bytes
\* are not UTF-8 leaves the execution context and the whole file summary,
\* the list of filenames included, as they were, raises nothing, and the
\* loop goes on with the next file.
C19_SkippedEntirely ==
    [][Unreadable(Current, "other") =>
            /\ loop'.raised = NoExc
            /\ loop'.i = loop.i + 1
            /\ loop'.file_context = loop.file_context
            /\ loop'.file_info = loop.file_info]_vars

\* C19, amended: as stated, except that of the file summary only the three
\* descriptor lists stay as they were: the file's name is appended to the
\* list of filenames, as for every file the loop gets through.
C19_SkippedButListed ==
    [][Unreadable(Current, "other") =>
            /\ loop'.raised = NoExc
            /\ loop'.i = loop.i + 1
            /\ loop'.file_context = loop.file_context
            /\ loop'.file_info.dataframes = loop.file_info.dataframes
            /\ loop'.file_info.text_content = loop.file_info.text_content
            /\ loop'.file_info.images = loop.file_info.images
            /\ loop'.file_info.files =
                 Append(loop.file_info.files, Current.filename)]_vars

\* C19's case: the loop has got through a file of unsupported type that is
\* not UTF-8, after a file that was bound, and stands at the end.
C19_Witness ==
    /\ loop.op = "for"
    /\ loop.i = 3
    /\ Len(loop.files) = 2
    /\ Unreadable(loop.files[2], "other")
    /\ DOMAIN loop.file_context # {}
    /\ loop.raised = NoExc

\* The branch the claim gives a filename: by its suffix as written for
\* .csv and .pdf, by its lower-cased suffix for the images, the text
\* fallback for everything else.
BySuffix(filename) ==
    CASE EndsWith(filename, Suffix_csv) -> "csv"
      [] EndsWith(filename, Suffix_pdf) -> "pdf"
      [] \E suffix \in {Suffix_png, Suffix_jpg, Suffix_jpeg} :
            EndsWith(Lower(filename), suffix) -> "image"
      [] OTHER -> "other"

\* The branch an iteration took, by what it did: the tabular branch
\* raised the CSV error or added a dataframe descriptor, the PDF branch
\* added a text descriptor for extracted pages (or none), the image branch
\* an image descriptor, the text fallback a text descriptor for the decoded
\* content or nothing at all.
Took(branch) ==
    LET before == loop.file_info
        after == loop'.file_info
        added == loop'.file_context[after.text_content[Len(after.text_content)].name]
    IN  CASE branch = "csv" ->
               \/ loop'.raised = HTTPException(400, "Error processing CSV")
               \/ Len(after.dataframes) = Len(before.dataframes) + 1
          [] branch = "pdf" ->
               /\ Len(after.text_content) = Len(before.text_content) + 1
               /\ added.data \in {"pages", ""}
          [] branch = "image" ->
               Len(after.images) = Len(before.images) + 1
          [] OTHER ->
               \/ /\ Len(after.text_content) = Len(before.text_content) + 1
                  /\ added.data = "content"
               \/ /\ loop'.raised = NoExc
                  /\ Descriptors(after) = Descriptors(before)

\* C20: every file the loop ingests takes exactly one branch, the one its
\* filename suffix decides: tabular for .csv and PDF text for .pdf, both as
\* written, image for .png, .jpg, .jpeg in any case, the text fallback for
\* every other name, .CSV and .PDF included.
C20_BranchBySuffix ==
    [][~SaveRaises(Current.filename) =>
          \A branch \in {"csv", "pdf", "image", "other"} :
              Took(branch) <=> branch = BySuffix(Current.filename)]_vars

\* C20's case: the loop has ingested a file named .CSV through the text
\* fallback.
C20_Witness ==
    /\ loop.op = "for"
    /\ loop.i = 2
    /\ EndsWith(Lower(loop.files[1].filename), Suffix_csv)
    /\ ~EndsWith(loop.files[1].filename, Suffix_csv)
    /\ \E name \in DOMAIN loop.file_context :
         loop.file_context[name].data = "content"

\* C21: when insert_one fails after the code was executed and returned a
\* value, no record of the request is in the log, the caller gets a 200
\* envelope with status "error", a null result in place of the computed
\* one and an error message, and the workspace is removed.
C21_LogFailureEnvelope ==
    \A h \in Handlers : stage_failed[h] = "log" =>
        /\ pc[h] = "done"
        /\ Finished(h)
        /\ RecordsOf(task_id[h]) = {}
        /\ resp[h].http = 200
        /\ resp[h].task_id = task_id[h]
        /\ resp[h].status = "error"
        /\ resp[h].result = PyNone
        /\ resp[h].error # PyNone
        /\ temp_dir[h] # NoDir
        /\ temp_dir[h] \notin workspaces

\* C21's case: the log write of a request whose script computed a result
\* has failed.
C21_Witness ==
    \E h \in Handlers :
        /\ stage_failed[h] = "log"
        /\ pc[h] = "done"
        /\ result[h] \notin {PyNone, Placeholder}
        /\ calls[h].insert = 1

\* C22, as stated: whatever the uploaded filename, with separators, ".."
\* or an absolute path, the copy a request writes lies inside that
\* request's workspace: every file the requests wrote that is on disk is
\* in the workspace of a request in flight, and once a request is answered
\* removing its workspace has removed every file it wrote.
C22_WritesInsideWorkspace ==
    \A f \in disk :
        \E h \in Handlers :
            /\ pc[h] \in {"await_model", "await_log"}
            /\ f.dir = temp_dir[h]
            /\ f.dir \in workspaces

=============================================================================
